---- MODULE Spec2Model ----
(***************************************************************************)
(* The HorizontalScroll widget of wtc-horizontal-scroll as a state machine. *)
(*                                                                         *)
(* Two versions of the class are in the repository: src/index.js (with     *)
(* navigation buttons that tween the scroll position) and the earlier      *)
(* src/unnamed/part_000 (alignment and debounce only).  The variable impl   *)
(* says which one was instantiated.                                        *)
(*                                                                         *)
(* Units.  JavaScript numbers are kept in halves (field h holds twice the  *)
(* value), because the code multiplies the integer gap by 0.5.  Strings    *)
(* are tuples of one-character strings so that Number(), parseInt() and    *)
(* String.replace() can be computed the way the engine computes them.      *)
(***************************************************************************)
EXTENDS Integers, Sequences, FiniteSets, TLC

-----------------------------------------------------------------------------
(* JavaScript values *)

Undefined == [t |-> "undefined", s |-> <<>>, h |-> 0]
Null == [t |-> "null", s |-> <<>>, h |-> 0]
Bool(b) == [t |-> "boolean", s |-> <<>>, h |-> IF b THEN 1 ELSE 0]
Str(cs) == [t |-> "string", s |-> cs, h |-> 0]
\* the number h/2
Num(h) == [t |-> "number", s |-> <<>>, h |-> h]
NaN == [t |-> "NaN", s |-> <<>>, h |-> 0]
Fn(cs) == [t |-> "function", s |-> cs, h |-> 0]
\* the whole number n
Int2Num(n) == Num(2 * n)

IsNumber(v) == v.t = "number"

\* ToBoolean: what `if (v)` and `v && ...` test
Truthy(v) ==
  CASE v.t = "boolean" -> v.h = 1
    [] v.t = "string" -> v.s # <<>>
    [] v.t = "number" -> v.h # 0
    [] v.t = "function" -> TRUE
    [] OTHER -> FALSE

\* a === b
StrictEq(a, b) == a.t # "NaN" /\ a = b

\* arithmetic and comparison; NaN propagates and compares false
Add(a, b) == IF IsNumber(a) /\ IsNumber(b) THEN Num(a.h + b.h) ELSE NaN
Sub(a, b) == IF IsNumber(a) /\ IsNumber(b) THEN Num(a.h - b.h) ELSE NaN
\* exact whenever one factor is a whole number, which holds at every use
Mul(a, b) == IF IsNumber(a) /\ IsNumber(b) THEN Num((a.h * b.h) \div 2) ELSE NaN
Gt(a, b) == IsNumber(a) /\ IsNumber(b) /\ a.h > b.h
Ge(a, b) == IsNumber(a) /\ IsNumber(b) /\ a.h >= b.h
Le(a, b) == IsNumber(a) /\ IsNumber(b) /\ a.h <= b.h
Lt(a, b) == IsNumber(a) /\ IsNumber(b) /\ a.h < b.h
\* x * 0.5
Half(a) == IF IsNumber(a) THEN Num(a.h \div 2) ELSE NaN

-----------------------------------------------------------------------------
(* Strings *)

Digits == {"0", "1", "2", "3", "4", "5", "6", "7", "8", "9"}
WhiteSpace == {" ", "\t", "\n"}

DigitVal(c) ==
  CASE c = "0" -> 0 [] c = "1" -> 1 [] c = "2" -> 2 [] c = "3" -> 3
    [] c = "4" -> 4 [] c = "5" -> 5 [] c = "6" -> 6 [] c = "7" -> 7
    [] c = "8" -> 8 [] c = "9" -> 9

RECURSIVE TrimLeft(_)
TrimLeft(cs) ==
  IF cs # <<>> /\ Head(cs) \in WhiteSpace THEN TrimLeft(Tail(cs)) ELSE cs

RECURSIVE TrimRight(_)
TrimRight(cs) ==
  IF cs # <<>> /\ cs[Len(cs)] \in WhiteSpace
    THEN TrimRight(SubSeq(cs, 1, Len(cs) - 1))
    ELSE cs

\* how many digits cs starts with
RECURSIVE LeadingDigits(_)
LeadingDigits(cs) ==
  IF cs # <<>> /\ Head(cs) \in Digits THEN 1 + LeadingDigits(Tail(cs)) ELSE 0

RECURSIVE DecimalValue(_, _)
DecimalValue(cs, acc) ==
  IF cs = <<>> THEN acc ELSE DecimalValue(Tail(cs), 10 * acc + DigitVal(Head(cs)))

StartsWith(cs, pat) == Len(cs) >= Len(pat) /\ SubSeq(cs, 1, Len(pat)) = pat

\* String.prototype.replace with a string pattern: the first occurrence only
RECURSIVE Replace(_, _, _)
Replace(cs, pat, rep) ==
  IF StartsWith(cs, pat) THEN rep \o SubSeq(cs, Len(pat) + 1, Len(cs))
  ELSE IF cs = <<>> THEN <<>>
  ELSE <<Head(cs)>> \o Replace(Tail(cs), pat, rep)

\* a string without its sign
Unsigned(str) == IF str # <<>> /\ Head(str) \in {"-", "+"} THEN Tail(str) ELSE str

\* the number of magnitude mag (in halves) with the sign str starts with; a
\* negative mag stands for "not a numeric literal"
Signed(str, mag) ==
  IF mag < 0 THEN NaN ELSE Num(IF Head(str) = "-" THEN -mag ELSE mag)

\* the digits body starts with, as a number signed like str; NaN without a digit
IntegerPrefix(str, body) ==
  IF LeadingDigits(body) = 0 THEN NaN
  ELSE Signed(str, 2 * DecimalValue(SubSeq(body, 1, LeadingDigits(body)), 0))

\* parseInt(string) without a radix: leading white space, an optional sign,
\* then the longest run of decimal digits; NaN when there is none.  (A "0x"
\* prefix switches to base 16; no modelled input has one.)
ParseInt(cs) == IntegerPrefix(TrimLeft(cs), Unsigned(TrimLeft(cs)))

\* the magnitude, in halves, of the unsigned decimal literal body, whose first
\* n characters are its integer digits; -1 when body is no decimal literal.
\* Fractions are read to the first digit (.0 or .5 in every modelled input).
UnsignedLiteral(body, n) ==
  IF n = Len(body) THEN (IF n > 0 THEN 2 * DecimalValue(body, 0) ELSE -1)
  ELSE IF body[n + 1] # "." \/ Len(body) = 1 THEN -1
  ELSE IF LeadingDigits(SubSeq(body, n + 2, Len(body))) # Len(body) - n - 1 THEN -1
  ELSE 2 * DecimalValue(SubSeq(body, 1, n), 0)
         + (IF n + 2 <= Len(body) /\ body[n + 2] = "5" THEN 1 ELSE 0)

\* a StringNumericLiteral without white space around it: "" is 0
NumericLiteral(str) ==
  IF str = <<>> THEN Num(0)
  ELSE Signed(str, UnsignedLiteral(Unsigned(str), LeadingDigits(Unsigned(str))))

\* Number(string): white space trimmed at both ends, "" is 0, a signed decimal
\* literal is its value, anything else NaN.  Exponents, "Infinity" and
\* 0x/0o/0b literals are no modelled input.
StringToNumber(cs) == NumericLiteral(TrimRight(TrimLeft(cs)))

\* Number(v)
ToNumber(v) ==
  CASE v.t = "number" -> v
    [] v.t = "string" -> StringToNumber(v.s)
    [] v.t = "boolean" -> Int2Num(v.h)
    [] v.t = "null" -> Num(0)
    [] OTHER -> NaN

\* the global isNaN(v), which converts v with Number first
isNaN(v) == ToNumber(v).t = "NaN"

-----------------------------------------------------------------------------
(* String constants of the source *)

HorizontalScrollName == <<"h","o","r","i","z","o","n","t","a","l","-","s","c","r","o","l","l">>
ScrollForwards == <<"S","c","r","o","l","l"," ","f","o","r","w","a","r","d","s">>
ScrollBackwards == <<"S","c","r","o","l","l"," ","b","a","c","k","w","a","r","d","s">>
HorizontalScrollLabel == <<"H","o","r","i","z","o","n","t","a","l"," ","s","c","r","o","l","l">>
ChevronNext == <<"<","s","p","a","n"," ","a","r","i","a","-","h","i","d","d","e","n","-","'","t","r","u","e","'",">",">","<","/","s","p","a","n",">">>
ChevronPrev == <<"<","s","p","a","n"," ","a","r","i","a","-","h","i","d","d","e","n","-","'","t","r","u","e","'",">","<","<","/","s","p","a","n",">">>
FalseStr == <<"f","a","l","s","e">>
TrueStr == <<"t","r","u","e">>
PxStr == <<"p","x">>
SnapSuffix == <<"-","-","s","n","a","p">>
CenterItemsSuffix == <<"-","-","c","e","n","t","e","r","-","i","t","e","m","s">>
NavSuffix == <<"_","_","n","a","v">>
UndefinedStr == <<"u","n","d","e","f","i","n","e","d">>

\* the resize debounce delay, in milliseconds
DebounceMs == 250
\* tween durations, in milliseconds
DurationReduced == 1
DurationFull == 400

OptionNames ==
  {"baseClassName", "easingFunction", "navigation", "navigationHiddenTextPrev",
   "navigationHiddenTextNext", "navigationLabel", "navigationVisualContentNext",
   "navigationVisualContentPrev", "scrollIncrement", "scrollSnap"}

\* the options element.dataset is read for
DataNames ==
  {"baseClassName", "navigation", "navigationHiddenTextPrev", "navigationHiddenTextNext",
   "navigationLabel", "scrollIncrement", "scrollSnap"}

\* the class fields' initial values (index.js)
Fields ==
  [baseClassName |-> Str(HorizontalScrollName),
   easingFunction |-> Fn(<<"q","u","a","d">>),
   navigation |-> Bool(TRUE),
   navigationHiddenTextNext |-> Str(ScrollForwards),
   navigationHiddenTextPrev |-> Str(ScrollBackwards),
   navigationLabel |-> Str(HorizontalScrollLabel),
   navigationVisualContentNext |-> Str(ChevronNext),
   navigationVisualContentPrev |-> Str(ChevronPrev),
   scrollIncrement |-> Int2Num(1),
   scrollSnap |-> Bool(FALSE)]

-----------------------------------------------------------------------------
VARIABLES
  impl,          \* "index" (src/index.js) or "legacy" (src/unnamed/part_000)
  options,       \* the constructor's second argument: option name -> value, Undefined when the key is absent
  dataset,       \* element.dataset: option name -> Str or Undefined
  markup,        \* innerHTML of the nav-markup-next / -previous children, Null when there is none
  pc,            \* "new", "constructed", or "threw" (the constructor raised)
  widget,        \* the instance's fields
  classList,     \* element.classList, a set of tokens
  children,      \* element's child nodes, first to last
  listeners,     \* event types with a listener of the instance on window
  uncaught,      \* the places an exception has escaped from
  css,           \* the computed style's custom properties: [gap, pad]
  domItems,      \* offsetWidth of each item element in the document, in list order
  offsetWidth,   \* element.offsetWidth
  listX,         \* viewport x of the list's left edge
  scrollLeft,    \* list.scrollLeft, in halves
  reducedMotion, \* matchMedia("(prefers-reduced-motion: reduce)").matches
  loaded,        \* the window's load event has been dispatched
  layouts,       \* the layouts the page takes: records [width, gap, pad]
  stops,         \* the offsets, in px, the user scrolls the list to
  timers,        \* pending timeouts: records [id, remaining]
  timerIds,      \* how many timeouts have been created
  sinceResize,   \* time since the last resize event, saturating at DebounceMs
  tweens,        \* the tweens the driver is running, oldest first
  resizeLog,     \* [events, bursts, fired, cancelled]
  adjustLog,     \* the runs of adjustAlignment: how many per cause, and the last one
  scrollLog      \* calls of updateScrollPosition: how many, and the last one's direction and caller

vars ==
  <<impl, options, dataset, markup, pc, widget, classList, children, listeners,
    uncaught, css, domItems, offsetWidth, listX, scrollLeft, reducedMotion,
    loaded, layouts, stops, timers, timerIds, sinceResize, tweens, resizeLog,
    adjustLog, scrollLog>>

input == <<impl, options, dataset, markup, domItems, listX, reducedMotion, layouts, stops>>

-----------------------------------------------------------------------------
(* Configuration: constructor parameters and their fallbacks *)

\* a parameter's default-value expression in the destructuring pattern
ParamDefault(name) ==
  CASE name = "navigationVisualContentNext" -> markup.next
    [] name = "navigationVisualContentPrev" -> markup.prev
    [] name = "scrollIncrement" -> ToNumber(dataset.scrollIncrement)
    [] name = "easingFunction" -> Undefined
    [] OTHER -> dataset[name]

\* a parameter that falls back to the element whenever the override is falsy
ParamOrAttribute(name) ==
  IF Truthy(options[name]) THEN options[name] ELSE ParamDefault(name)

\* a destructured parameter: the default applies only when the property is undefined
Param(name) ==
  IF options[name] = Undefined THEN ParamDefault(name) ELSE options[name]

\* "Overwrite default options if needed": the field's value after the ifs,
\* p being the destructured parameter
Overwrite(name, p) ==
  CASE name = "easingFunction" ->
         IF Truthy(p) /\ p.t = "function" THEN p ELSE Fields[name]
    [] name = "navigation" ->
         IF StrictEq(p, Str(FalseStr)) \/ StrictEq(p, Bool(FALSE))
           THEN Bool(FALSE) ELSE Fields[name]
    [] name = "scrollIncrement" ->
         IF Truthy(p) /\ ~isNaN(p) THEN p ELSE Fields[name]
    [] name = "scrollSnap" ->
         IF Truthy(p) /\ ~StrictEq(p, Str(FalseStr)) THEN Bool(TRUE) ELSE Fields[name]
    [] OTHER -> IF Truthy(p) THEN p ELSE Fields[name]

\* part_000: the value a data-attribute gives an option.  Its navigationTextLeft
\* and navigationTextRight are this model's navigationHiddenTextPrev and -Next.
LegacyAttr(name) ==
  CASE name = "baseClassName" ->
         IF Truthy(dataset[name]) THEN dataset[name] ELSE Str(HorizontalScrollName)
    [] name = "navigation" ->
         IF Truthy(dataset[name]) /\ StrictEq(dataset[name], Str(FalseStr))
           THEN Bool(FALSE) ELSE Bool(TRUE)
    [] name = "navigationLabel" ->
         IF Truthy(dataset[name]) THEN dataset[name] ELSE Str(HorizontalScrollLabel)
    [] name = "navigationHiddenTextPrev" ->
         IF Truthy(dataset[name]) THEN dataset[name] ELSE Str(ScrollBackwards)
    [] name = "navigationHiddenTextNext" ->
         IF Truthy(dataset[name]) THEN dataset[name] ELSE Str(ScrollForwards)
    [] name = "scrollSnap" -> Bool(StrictEq(dataset[name], Str(TrueStr)))
    [] OTHER -> Undefined

\* part_000: this.options = {...from the attributes, ...options}
LegacyOption(name) ==
  IF options[name] # Undefined THEN options[name] ELSE LegacyAttr(name)

\* the option fields once the constructor has assigned them
Configure(name) ==
  IF impl = "index" THEN Overwrite(name, Param(name)) ELSE LegacyOption(name)

-----------------------------------------------------------------------------
(* The document: tokens, nodes, layout *)

\* DOMTokenList.add/remove accept a token that is not empty and holds no white
\* space, and throw for any other
ValidToken(cs) == cs # <<>> /\ \A i \in 1..Len(cs) : cs[i] \notin WhiteSpace

\* a removal that resets the class attribute
RemoveEveryToken(list, token) == {}

\* classList.remove(token) and classList.add(token) with a valid token
RemoveToken(list, token) == list \ {token}
AddToken(list, token) == list \cup {token}

\* `${v}` for the values a class name or a text takes here
Template(v) == IF v.t = "string" THEN v.s ELSE UndefinedStr

Node(tag, label, buttons) == [tag |-> tag, label |-> label, buttons |-> buttons]
Button(dir, html, text, click) ==
  [dir |-> dir, html |-> html, text |-> text, click |-> click]

\* the markup the widget is built on: the list is the only child
Markup == <<Node("ul", Undefined, <<>>)>>

\* querySelectorAll(`.${base}__item`): the document names its items after the
\* configured base class, which it can only do when that is a class name
QueryItems(base) == IF ValidToken(base) THEN domItems ELSE <<>>

\* parseInt(computedStyle.getPropertyValue(...).replace("px", ""))
ReadMetric(value) == ParseInt(Replace(value, PxStr, <<>>))

\* the length the style sheet's var(--item-gap) / var(--list-pad) lays out, in
\* px: the declared length, and 0 when the property does not hold one
Length(n) == IF IsNumber(n) /\ n.h > 0 THEN n.h \div 2 ELSE 0
LayoutPx(value) == Length(ParseInt(value))

RECURSIVE SumSeq(_)
SumSeq(ws) == IF ws = <<>> THEN 0 ELSE Head(ws) + SumSeq(Tail(ws))

Max(a, b) == IF a >= b THEN a ELSE b
Min(a, b) == IF a <= b THEN a ELSE b

\* the list's scrollWidth, in px: padding, items, gaps, trailing inset
ScrollWidth(style) ==
  2 * LayoutPx(style.pad) + SumSeq(domItems)
    + (IF domItems = <<>> THEN 0 ELSE (Len(domItems) - 1) * LayoutPx(style.gap))

\* the largest scrollLeft, in halves
ScrollMax(style, width) == 2 * Max(0, ScrollWidth(style) - width)

\* list.scroll(value, 0): a non-finite value is 0, and the offset is clamped
Scroll(value) ==
  IF ~IsNumber(value) THEN 0
  ELSE Max(0, Min(value.h, ScrollMax(css, offsetWidth)))

\* items[i].getBoundingClientRect().x for the i-th item (from 1), in halves
ItemX(i) ==
  2 * (listX + LayoutPx(css.pad) + SumSeq(SubSeq(domItems, 1, i - 1))
         + (i - 1) * LayoutPx(css.gap))
    - scrollLeft

-----------------------------------------------------------------------------
(* constructor *)

\* cs holds pat somewhere
Contains(cs, pat) ==
  \E i \in 1..(Len(cs) - Len(pat) + 1) : SubSeq(cs, i, i + Len(pat) - 1) = pat

\* an HTML fragment up to the first ">": the start tag of its first element
RECURSIVE StartTag(_)
StartTag(html) ==
  IF html = <<>> \/ Head(html) = ">" THEN <<>> ELSE <<Head(html)>> \o StartTag(Tail(html))

\* the first element of the fragment, once parsed by an innerHTML assignment,
\* has the attribute name with the value text: written name="text",
\* name='text' or name=text in the start tag
HasAttribute(html, name, text) ==
  \E quote \in {<<"\"">>, <<"'">>, <<>>} :
    Contains(StartTag(html), <<" ">> \o name \o <<"=">> \o quote \o text \o quote)

\* a button that is given no direction
DirMissing == <<>>

\* navPrev.dataset.dir and navNext.dataset.dir
DirPrev == <<"0">>
DirNext == <<"1">>

\* the nav element the constructor of w builds: the wrapper of navPrev is
\* appended first, the wrapper of navNext second
NavMarkup(w) ==
  IF impl = "index"
    THEN Node("nav", w.navigationLabel,
              << Button(DirPrev, Template(w.navigationVisualContentPrev),
                        Template(w.navigationHiddenTextPrev), TRUE),
                 Button(DirNext, Template(w.navigationVisualContentNext),
                        Template(w.navigationHiddenTextNext), TRUE) >>)
    ELSE Node("nav",
              IF Truthy(w.navigationLabel) THEN w.navigationLabel ELSE Undefined,
              << Button(<<>>, <<>>, Template(w.navigationHiddenTextPrev), FALSE),
                 Button(<<>>, <<>>, Template(w.navigationHiddenTextNext), FALSE) >>)

\* this.scrollSnap && classList.add(...)
AddsSnap(w) == Truthy(w.scrollSnap)

\* a constructor that builds the nav whatever the option says
BuildsNavAlways(w) == TRUE

\* if (this.navigation) { ... }
BuildsNav(w) == Truthy(w.navigation)

\* the element's children once the nav (if any) is inserted "afterbegin"
InsertNav(w, nodes) == <<NavMarkup(w)>> \o nodes

SnapToken(w) == Template(w.baseClassName) \o SnapSuffix
NavToken(w) == Template(w.baseClassName) \o NavSuffix

\* classList.add throws in the constructor of w: for the snap class, or for the
\* nav's class
SnapThrows(w) == AddsSnap(w) /\ ~ValidToken(SnapToken(w))
NavThrows(w) == BuildsNav(w) /\ ~ValidToken(NavToken(w))

\* new HorizontalScroll(element, options).  The fields are assigned before the
\* first statement that can throw.
Construct ==
  /\ pc = "new"
  /\ widget' = [n \in DOMAIN widget |->
                  IF n \in OptionNames THEN Configure(n)
                  ELSE IF n = "items" THEN QueryItems(Template(Configure("baseClassName")))
                  ELSE IF n = "itemGap" THEN ReadMetric(css.gap)
                  ELSE IF n = "listPad" THEN ReadMetric(css.pad)
                  ELSE Null]
  /\ listeners' = {"resize", "load"}
  /\ classList' = IF AddsSnap(widget') /\ ~SnapThrows(widget')
                    THEN AddToken(classList, SnapToken(widget'))
                    ELSE classList
  /\ pc' = IF SnapThrows(widget') \/ NavThrows(widget') THEN "threw" ELSE "constructed"
  /\ children' = IF BuildsNav(widget') /\ pc' = "constructed"
                   THEN InsertNav(widget', children)
                   ELSE children
  /\ uncaught' = IF pc' = "threw" THEN uncaught \cup {"constructor"} ELSE uncaught
  /\ UNCHANGED <<input, css, offsetWidth, scrollLeft, loaded, timers, timerIds,
                 sinceResize, tweens, resizeLog, adjustLog, scrollLog>>

-----------------------------------------------------------------------------
(* bounds of the model *)

\* resize events and scroll requests delivered to one instance, together
MaxInputs == 2
\* the longest step the clock takes at once, in milliseconds
TickMs == 125
\* tweens the driver runs at the same time
MaxTweens == 2

-----------------------------------------------------------------------------
(* adjustAlignment *)

\* itemReducer(total, currentItem, i), with currentItem.offsetWidth = width
itemReducer(w, total, width, i) ==
  LET gap == IF i = 0 THEN w.listPad ELSE w.itemGap
  IN Add(Add(total, Int2Num(width)), gap)

\* this.items.reduce(this.itemReducer, total), the next index being i
RECURSIVE Reduce(_, _, _, _)
Reduce(w, total, ws, i) ==
  IF ws = <<>> THEN total
  ELSE Reduce(w, itemReducer(w, total, Head(ws), i), Tail(ws), i + 1)

ItemsWidth(w) == Reduce(w, Num(0), w.items, 0)

\* a comparison that drops the class at equality
AlignmentMethodAtLeast(itemsWidth, listWidth) ==
  IF Ge(itemsWidth, listWidth) THEN "remove" ELSE "add"

\* classList[itemsWidth > listWidth ? "remove" : "add"]
AlignmentMethod(itemsWidth, listWidth) ==
  IF Gt(itemsWidth, listWidth) THEN "remove" ELSE "add"

CenterToken(w) == Template(w.baseClassName) \o CenterItemsSuffix

\* adjustAlignment() on the instance w, run because of `cause`
adjustAlignment(w, cause) ==
  LET itemsWidth == ItemsWidth(w)
      listWidth == Int2Num(offsetWidth)
      method == AlignmentMethod(itemsWidth, listWidth)
      token == CenterToken(w)
  IN /\ classList' = IF ~ValidToken(token) THEN classList
                     ELSE IF method = "remove" THEN RemoveToken(classList, token)
                     ELSE AddToken(classList, token)
     /\ uncaught' = IF ValidToken(token) THEN uncaught
                    ELSE uncaught \cup {"adjustAlignment"}
     /\ adjustLog' = [adjustLog EXCEPT
                        ![cause] = @ + 1,
                        !.last = [cause |-> cause, before |-> token \in classList]]

\* a load event no listener of the instance hears
WindowLoadUnheard ==
  /\ ~loaded
  /\ loaded' = TRUE
  /\ UNCHANGED <<input, pc, widget, classList, children, listeners, uncaught, css,
                 offsetWidth, scrollLeft, timers, timerIds, sinceResize, tweens,
                 resizeLog, adjustLog, scrollLog>>

\* the window's load event
WindowLoad ==
  /\ ~loaded
  /\ loaded' = TRUE
  /\ IF "load" \in listeners
       THEN adjustAlignment(widget, "load")
       ELSE UNCHANGED <<classList, uncaught, adjustLog>>
  /\ UNCHANGED <<input, pc, widget, children, listeners, css, offsetWidth, scrollLeft,
                 timers, timerIds, sinceResize, tweens, resizeLog, scrollLog>>

-----------------------------------------------------------------------------
(* handleResize and its timer *)

\* clearTimeout(id)
clearTimeout(pending, id) == {t \in pending : Int2Num(t.id) # id}

\* a handler that schedules without cancelling
KeepPrevious(pending, w) == pending

\* if (this.resizeTimer) clearTimeout(this.resizeTimer)
CancelPrevious(pending, w) ==
  IF Truthy(w.resizeTimer) THEN clearTimeout(pending, w.resizeTimer) ELSE pending

\* a resize event of the window: handleResize(e)
WindowResize ==
  /\ "resize" \in listeners
  /\ resizeLog.events + scrollLog.calls < MaxInputs
  /\ LET kept == CancelPrevious(timers, widget)
         id == timerIds + 1
     IN /\ timers' = kept \cup {[id |-> id, remaining |-> DebounceMs]}
        /\ timerIds' = id
        /\ widget' = [widget EXCEPT !.resizeTimer = Int2Num(id)]
        /\ resizeLog' = [resizeLog EXCEPT
                           !.events = @ + 1,
                           !.bursts = IF timers = {} THEN @ + 1 ELSE @,
                           !.cancelled = @ + Cardinality(timers \ kept)]
  /\ sinceResize' = 0
  /\ UNCHANGED <<input, pc, classList, children, listeners, uncaught, css, offsetWidth,
                 scrollLeft, loaded, tweens, adjustLog, scrollLog>>

\* time passes, up to the next timeout
Tick ==
  /\ pc # "new"
  /\ \A t \in timers : t.remaining > 0
  /\ timers # {} \/ sinceResize < DebounceMs
  /\ LET d == IF timers = {} THEN TickMs
              ELSE Min(TickMs, (CHOOSE t \in timers :
                                  \A u \in timers : t.remaining <= u.remaining).remaining)
     IN /\ timers' = {[t EXCEPT !.remaining = @ - d] : t \in timers}
        /\ sinceResize' = Min(DebounceMs, sinceResize + d)
  /\ UNCHANGED <<input, pc, widget, classList, children, listeners, uncaught, css,
                 offsetWidth, scrollLeft, loaded, timerIds, tweens, resizeLog,
                 adjustLog, scrollLog>>

\* a callback that keeps the metrics cached at construction
KeepMetrics(w, style) == w

\* the timeout's arrow function re-reads --item-gap and --list-pad
RefreshMetrics(w, style) ==
  [w EXCEPT !.itemGap = ReadMetric(style.gap), !.listPad = ReadMetric(style.pad)]

\* a timeout set by handleResize expires: its arrow function runs
TimerFire ==
  \E t \in timers :
    /\ t.remaining = 0
    /\ timers' = timers \ {t}
    /\ widget' = RefreshMetrics(widget, css)
    /\ adjustAlignment(widget', "timer")
    /\ resizeLog' = [resizeLog EXCEPT !.fired = @ + 1]
    /\ UNCHANGED <<input, pc, children, listeners, css, offsetWidth, scrollLeft,
                   loaded, timerIds, sinceResize, tweens, scrollLog>>

-----------------------------------------------------------------------------
(* calculateNewScrollPosition and updateScrollPosition (index.js) *)

ScrollLeftNum == Num(scrollLeft)

\* this.items.find(x => x.getBoundingClientRect().x >= this.itemGap * 0.5):
\* the index (from 1) of the first such item, 0 when find returns undefined
RECURSIVE FindLeftmost(_)
FindLeftmost(i) ==
  IF i > Len(widget.items) THEN 0
  ELSE IF Ge(Num(ItemX(i)), Half(widget.itemGap)) THEN i
  ELSE FindLeftmost(i + 1)

leftmostItem == FindLeftmost(1)

\* an inset of half the gap for every item
leftPadHalfGap(anchor) == Half(widget.itemGap)

\* leftmostItem === this.items[0] ? this.listPad : this.itemGap * 0.5
leftPad(anchor) == IF anchor = 1 THEN widget.listPad ELSE Half(widget.itemGap)

\* leftmostItemX === leftPad ? scrollIncrement : scrollIncrement - 1
incrementMultiplier(anchor) ==
  IF StrictEq(Num(ItemX(anchor)), leftPad(anchor))
    THEN widget.scrollIncrement
    ELSE Sub(ToNumber(widget.scrollIncrement), Int2Num(1))

\* a "next" branch that stops at the item's edge, without the half gap
ForwardPositionToEdge(anchor) ==
  Add(Add(ScrollLeftNum, Num(ItemX(anchor))),
      Mul(ToNumber(incrementMultiplier(anchor)),
          Add(Int2Num(widget.items[1]), widget.itemGap)))

\* the "next" branch
ForwardPosition(anchor) ==
  LET itemWidth == Int2Num(widget.items[1])
      mult == ToNumber(incrementMultiplier(anchor))
  IN Sub(Add(Add(ScrollLeftNum, Num(ItemX(anchor))),
             Mul(mult, Add(itemWidth, widget.itemGap))),
         Half(widget.itemGap))

\* a start test that leaves out the padding and the half gap
NearStartItemOnly == Le(ScrollLeftNum, Int2Num(widget.items[1]))

\* scrollLeft <= itemWidth + listPad + itemGap * 0.5
NearStart ==
  Le(ScrollLeftNum,
     Add(Add(Int2Num(widget.items[1]), widget.listPad), Half(widget.itemGap)))

\* a "previous" branch that always steps by whole strides
BackwardPositionWholeStrides(anchor) ==
  IF NearStart THEN Num(0)
  ELSE Sub(ScrollLeftNum,
           Mul(ToNumber(incrementMultiplier(anchor)),
               Add(Int2Num(widget.items[1]), widget.itemGap)))

\* the "previous" branch
BackwardPosition(anchor) ==
  LET itemWidth == Int2Num(widget.items[1])
      mult == ToNumber(incrementMultiplier(anchor))
      stride == Add(itemWidth, widget.itemGap)
  IN IF NearStart THEN Num(0)
     ELSE IF Lt(mult, Int2Num(1))
       THEN Sub(Sub(ScrollLeftNum,
                    Add(Sub(stride, Num(ItemX(anchor))), leftPad(anchor))),
                Mul(mult, stride))
       ELSE Sub(ScrollLeftNum, Mul(mult, stride))

\* calculateNewScrollPosition(direction): [threw, value].  It throws a
\* TypeError when there is no item 0 or when find returns undefined.
calculateNewScrollPosition(direction) ==
  LET anchor == leftmostItem
  IN IF widget.items = <<>> \/ anchor = 0
       THEN [threw |-> TRUE, value |-> NaN]
       ELSE [threw |-> FALSE,
             value |-> IF Truthy(direction) THEN ForwardPosition(anchor)
                       ELSE BackwardPosition(anchor)]

\* const duration = prefersReducedMotion ? 1 : 400
Duration(prefersReducedMotion) ==
  IF prefersReducedMotion THEN DurationReduced ELSE DurationFull

\* a call that does not move the list under reduced motion
TweenArgumentsStill(direction, prefersReducedMotion) ==
  [from |-> ScrollLeftNum,
   to |-> IF prefersReducedMotion THEN ScrollLeftNum
          ELSE calculateNewScrollPosition(direction).value,
   duration |-> Duration(prefersReducedMotion),
   timingFunction |-> widget.easingFunction]

\* the arguments updateScrollPosition hands to tween()
TweenArguments(direction, prefersReducedMotion) ==
  [from |-> ScrollLeftNum,
   to |-> calculateNewScrollPosition(direction).value,
   duration |-> Duration(prefersReducedMotion),
   timingFunction |-> widget.easingFunction]

\* a driver that drops the tweens it is running when a new one starts
StartTweenAlone(running, t) == <<t>>

\* tween(initialPos, newPos, callback, {...}): the call returns nothing that
\* is kept, and the new tween runs next to the ones already running
StartTween(running, t) == Append(running, t)

\* updateScrollPosition(direction = 1); button is the position in its nav of
\* the button whose click handler makes the call, 0 when the page makes it
updateScrollPosition(argument, button) ==
  /\ resizeLog.events + scrollLog.calls < MaxInputs
  /\ Len(tweens) < MaxTweens
  /\ \E direction \in {IF argument = Undefined THEN Int2Num(1) ELSE argument} :
     \E result \in {calculateNewScrollPosition(direction)} :
     \E call \in {TweenArguments(direction, reducedMotion)} :
       /\ tweens' = IF result.threw THEN tweens
                    ELSE StartTween(tweens, [from |-> call.from, to |-> call.to,
                                             duration |-> call.duration, midway |-> FALSE])
       /\ uncaught' = IF result.threw THEN uncaught \cup {"updateScrollPosition"}
                      ELSE uncaught
       /\ scrollLog' = [calls |-> scrollLog.calls + 1, direction |-> direction,
                        button |-> button]

\* the nav is shown unless the centered class hides it (style sheet)
NavShown == CenterToken(widget) \notin classList

\* a click on the i-th button of a nav: handleNavClick(e)
NavClick ==
  \E n \in 1..Len(children) : \E b \in 1..Len(children[n].buttons) :
    /\ children[n].buttons[b].click
    /\ NavShown
    /\ updateScrollPosition(ParseInt(children[n].buttons[b].dir), b)
    /\ UNCHANGED <<input, pc, widget, classList, children, listeners, css, offsetWidth,
                   scrollLeft, loaded, timers, timerIds, sinceResize, resizeLog,
                   adjustLog>>

\* the page calls updateScrollPosition itself ("can also be called programatically")
CallUpdateScrollPosition ==
  \E argument \in {Undefined, Int2Num(0), Int2Num(1)} :
    /\ pc = "constructed"
    /\ impl = "index"
    /\ updateScrollPosition(argument, 0)
    /\ UNCHANGED <<input, pc, widget, classList, children, listeners, css, offsetWidth,
                   scrollLeft, loaded, timers, timerIds, sinceResize, resizeLog,
                   adjustLog>>

\* the driver calls back with a value between the ends: value => list.scroll(value, 0)
TweenFrame ==
  \E i \in 1..Len(tweens) :
    /\ ~tweens[i].midway
    /\ scrollLeft' = Scroll(Half(Add(tweens[i].from, tweens[i].to)))
    /\ tweens' = [tweens EXCEPT ![i].midway = TRUE]
    /\ UNCHANGED <<input, pc, widget, classList, children, listeners, uncaught, css,
                   offsetWidth, loaded, timers, timerIds, sinceResize, resizeLog,
                   adjustLog, scrollLog>>

\* the driver's last callback of a tween, with the end value.  A tween lasts
\* its duration: it ends after those started before it that are no longer
TweenEnd ==
  \E i \in 1..Len(tweens) :
    /\ \A j \in 1..(i - 1) : tweens[j].duration > tweens[i].duration
    /\ scrollLeft' = Scroll(tweens[i].to)
    /\ tweens' = SubSeq(tweens, 1, i - 1) \o SubSeq(tweens, i + 1, Len(tweens))
    /\ UNCHANGED <<input, pc, widget, classList, children, listeners, uncaught, css,
                   offsetWidth, loaded, timers, timerIds, sinceResize, resizeLog,
                   adjustLog, scrollLog>>

-----------------------------------------------------------------------------
(* the environment *)

Layout(width, gap, pad) == [width |-> width, gap |-> gap, pad |-> pad]

\* the user scrolls the list
UserScroll ==
  \E x \in stops :
    /\ pc # "new"
    /\ 2 * x <= ScrollMax(css, offsetWidth)
    /\ scrollLeft # 2 * x
    /\ scrollLeft' = 2 * x
    /\ UNCHANGED <<input, pc, widget, classList, children, listeners, uncaught, css,
                   offsetWidth, loaded, timers, timerIds, sinceResize, tweens,
                   resizeLog, adjustLog, scrollLog>>

\* the container is laid out at another width, or the custom properties change
Relayout ==
  \E l \in layouts :
    /\ pc # "new"
    /\ l # Layout(offsetWidth, css.gap, css.pad)
    /\ offsetWidth' = l.width
    /\ css' = [gap |-> l.gap, pad |-> l.pad]
    /\ scrollLeft' = Min(scrollLeft, ScrollMax(css', l.width))
    /\ UNCHANGED <<input, pc, widget, classList, children, listeners, uncaught,
                   loaded, timers, timerIds, sinceResize, tweens, resizeLog,
                   adjustLog, scrollLog>>

-----------------------------------------------------------------------------
(* initial states *)

NoOptions == [n \in OptionNames |-> Undefined]
NoData == [n \in DataNames |-> Undefined]
NoMarkup == [next |-> Null, prev |-> Null]
Gap24 == <<"2","4","p","x">>
Pad16 == <<"1","6","p","x">>

NoAdjust == [cause |-> "none", before |-> FALSE]

NoScroll == [calls |-> 0, direction |-> Undefined, button |-> 0]

\* the page before `new HorizontalScroll(element, options)`
Start(i, o, d, m, page, scrolls, items, x, motion) ==
  /\ impl = i
  /\ options = o
  /\ dataset = d
  /\ markup = m
  /\ pc = "new"
  /\ widget = [n \in OptionNames \cup {"items", "itemGap", "listPad", "resizeTimer"} |->
                 IF n \in OptionNames THEN Fields[n]
                 ELSE IF n = "items" THEN <<>>
                 ELSE Undefined]
  /\ classList = {}
  /\ children = Markup
  /\ listeners = {}
  /\ uncaught = {}
  /\ layouts = page
  /\ stops = scrolls
  /\ \E l \in page : offsetWidth = l.width /\ css = [gap |-> l.gap, pad |-> l.pad]
  /\ domItems = items
  /\ listX = x
  /\ scrollLeft = 0
  /\ reducedMotion = motion
  /\ loaded = FALSE
  /\ timers = {}
  /\ timerIds = 0
  /\ sinceResize = DebounceMs
  /\ tweens = <<>>
  /\ resizeLog = [events |-> 0, bursts |-> 0, fired |-> 0, cancelled |-> 0]
  /\ adjustLog = [load |-> 0, timer |-> 0, last |-> NoAdjust]
  /\ scrollLog = NoScroll

Impls == {"index", "legacy"}

\* the whole widget on one page, with and without scroll snapping
Init ==
  \E i \in Impls :
  \E d \in {NoData, [NoData EXCEPT !.scrollSnap = Str(TrueStr)]} :
    /\ Start(i, NoOptions, d, NoMarkup,
             {Layout(320, Gap24, Pad16), Layout(1000, Gap24, Pad16)},
             {340}, <<300, 300, 300>>, 0, FALSE)
    /\ offsetWidth = 320

Next ==
  \/ Construct
  \/ WindowLoad
  \/ WindowResize
  \/ Tick
  \/ TimerFire
  \/ NavClick
  \/ CallUpdateScrollPosition
  \/ TweenFrame
  \/ TweenEnd
  \/ UserScroll
  \/ Relayout

Spec == Init /\ [][Next]_vars

-----------------------------------------------------------------------------
(* alignment and the resize debounce, over many geometries *)

Gap9 == <<"9","p","x">>
Pad4 == <<" ","4","p","x">>
GapValues == {Gap24, Gap9, <<>>}
PadValues == {Pad16, Pad4, <<>>}

InitLayout ==
  \E i \in Impls :
  \E items \in {<<>>, <<300>>, <<300, 300>>, <<300, 120, 200>>} :
  \E gap \in GapValues : \E pad \in PadValues :
    Start(i, NoOptions, NoData, NoMarkup,
          {Layout(640, gap, pad), Layout(639, gap, pad), Layout(640, Gap24, Pad16)},
          {0}, items, 0, FALSE)

NextLayout ==
  \/ Construct
  \/ WindowLoad
  \/ WindowResize
  \/ Tick
  \/ TimerFire
  \/ Relayout

SpecLayout == InitLayout /\ [][NextLayout]_vars


-----------------------------------------------------------------------------
(* scrolling: increments, geometries and scroll offsets *)

Increment2 == <<"2">>
Increment3 == <<"3">>
IncrementFraction == <<"2", ".", "5">>
IncrementHalf == <<"0", ".", "5">>

InitScroll ==
  \E inc \in {Undefined, Str(Increment2), Str(Increment3), Str(IncrementFraction),
               Str(IncrementHalf)} :
  \E items \in {<<300, 300, 300>>, <<300>>} :
  \E l \in {Layout(320, Gap24, Pad16), Layout(320, Gap9, Pad4)} :
  \E view \in {<<0, FALSE>>, <<0, TRUE>>, <<10, FALSE>>} :
    Start("index", NoOptions, [NoData EXCEPT !.scrollIncrement = inc], NoMarkup,
          {l}, {4, 340}, items, view[1], view[2])

NextScroll ==
  \/ Construct
  \/ NavClick
  \/ TweenFrame
  \/ TweenEnd
  \/ UserScroll

SpecScroll == InitScroll /\ [][NextScroll]_vars

-----------------------------------------------------------------------------
(* configuration: overrides, attributes and marker children *)

Carousel == <<"c","a","r","o","u","s","e","l">>
Gallery == <<"g","a","l","l","e","r","y">>
TwoWords == <<"m","y"," ","s","c","r","o","l","l">>
CustomText == <<"C","u","s","t","o","m">>
AttributeText == <<"F","r","o","m"," ","a","t","t","r","i","b","u","t","e">>
ArrowMarkup == <<"<","b",">","g","o","<","/","b",">">>
AriaHidden == <<"a","r","i","a","-","h","i","d","d","e","n">>
EaseName == <<"e","a","s","e">>
Three == <<"3">>
Word == <<"a","b","c">>
MinusOne == <<"-","1">>
PaddedTwo == <<" ","2"," ">>
No == <<"n","o">>
Yes == <<"y","e","s">>

VisualContent == {"navigationVisualContentNext", "navigationVisualContentPrev"}

\* the values passed for an option in the constructor's second argument
Overrides(name) ==
  CASE name = "baseClassName" -> {Undefined, Str(Carousel), Str(<<>>)}
    [] name = "navigation" -> {Undefined, Bool(TRUE), Bool(FALSE), Str(FalseStr), Null}
    [] name = "scrollIncrement" -> {Undefined, Int2Num(2), Num(0), NaN, Str(Three)}
    [] name = "scrollSnap" -> {Undefined, Bool(TRUE), Bool(FALSE), Str(FalseStr)}
    [] name = "easingFunction" -> {Undefined, Fn(EaseName), Str(EaseName)}
    [] OTHER -> {Undefined, Str(CustomText), Str(<<>>)}

\* the values the element holds for an option: a data attribute, or the
\* innerHTML of a marker child (Null without the child)
Attributes(name) ==
  CASE name = "baseClassName" -> {Undefined, Str(Gallery), Str(<<>>), Str(TwoWords)}
    [] name = "navigation" -> {Undefined, Str(FalseStr), Str(TrueStr), Str(No)}
    [] name = "scrollIncrement" ->
         {Undefined, Str(<<>>), Str(Three), Str(Word), Str(MinusOne),
          Str(IncrementFraction), Str(PaddedTwo)}
    [] name = "scrollSnap" -> {Undefined, Str(TrueStr), Str(FalseStr), Str(Yes), Str(<<>>)}
    [] name \in VisualContent -> {Null, Str(ArrowMarkup), Str(<<>>)}
    [] name = "easingFunction" -> {Undefined}
    [] OTHER -> {Undefined, Str(AttributeText), Str(<<>>)}

\* the other attributes of the element
Baselines ==
  {[NoData EXCEPT !.baseClassName = b, !.navigation = n, !.scrollSnap = s] :
     b \in {Undefined, Str(TwoWords)}, n \in {Undefined, Str(FalseStr)},
     s \in {Undefined, Str(TrueStr)}}

InitConfig ==
  \E i \in Impls : \E name \in OptionNames :
  \E o \in Overrides(name) : \E a \in Attributes(name) : \E rest \in Baselines :
    Start(i, [NoOptions EXCEPT ![name] = o],
          IF name \in DataNames THEN [rest EXCEPT ![name] = a] ELSE rest,
          [next |-> IF name = "navigationVisualContentNext" THEN a ELSE Null,
           prev |-> IF name = "navigationVisualContentPrev" THEN a ELSE Null],
          {Layout(320, Gap24, Pad16)}, {0}, <<300, 300, 300>>, 0, FALSE)

NextConfig ==
  \/ Construct
  \/ WindowLoad
  \/ NavClick

SpecConfig == InitConfig /\ [][NextConfig]_vars

-----------------------------------------------------------------------------
(* Alignment *)

\* a step in which adjustAlignment ran
AlignmentRan ==
  adjustLog'.load + adjustLog'.timer = adjustLog.load + adjustLog.timer + 1

\* (listPad + width of item 0) + the sum over the other items of
\* (itemGap + width), in halves
ContentWidth(w) ==
  IF w.items = <<>> THEN 0
  ELSE w.listPad.h + 2 * SumSeq(w.items) + (Len(w.items) - 1) * w.itemGap.h

\* the gap and the padding that enter the sum are numbers
MetricsAreNumbers(w) ==
  /\ w.items # <<>> => IsNumber(w.listPad)
  /\ Len(w.items) >= 2 => IsNumber(w.itemGap)

\* C1: every run of adjustAlignment leaves the centered class on the container
\* exactly when the summed content width is at most the container's
\* offsetWidth (equality counts as centered), whatever the class was before.
C1_CenteredIffContentFits ==
  [][AlignmentRan /\ MetricsAreNumbers(widget')
       => (CenterToken(widget') \in classList'
             <=> ContentWidth(widget') <= 2 * offsetWidth')]_vars

\* a run at equality has left the class on
C1_Witness ==
  /\ adjustLog.last.cause # "none"
  /\ Len(widget.items) >= 2
  /\ MetricsAreNumbers(widget)
  /\ ContentWidth(widget) = 2 * offsetWidth
  /\ CenterToken(widget) \in classList

-----------------------------------------------------------------------------
(* Resize debounce *)

\* a step in which a timeout's callback ran
TimerFired == resizeLog'.fired = resizeLog.fired + 1

\* C2: a burst of resize events, each arriving while the previous one's
\* timeout is pending, gets exactly one recomputation; it runs DebounceMs
\* after the burst's last event and with the gap and padding read from the
\* computed style at that moment.
C2_OneRecomputationPerBurst ==
  /\ [](/\ resizeLog.fired + Cardinality(timers) = resizeLog.bursts
        /\ adjustLog.timer = resizeLog.fired)
  /\ [][TimerFired
          => /\ sinceResize = DebounceMs
             /\ adjustLog'.timer = adjustLog.timer + 1
             /\ widget'.itemGap = ReadMetric(css.gap)
             /\ widget'.listPad = ReadMetric(css.pad)]_vars

\* a burst of two events is over and was answered once
C2_Witness ==
  /\ resizeLog.events = 2
  /\ resizeLog.bursts = 1
  /\ resizeLog.fired = 1
  /\ adjustLog.timer = 1
  /\ adjustLog.last.cause = "timer"

\* C3: at most one timeout of an instance is pending, it is the one scheduled
\* last, and every earlier one was cancelled or has fired: a superseded
\* timeout never fires.
C3_AtMostOnePendingTimer ==
  /\ Cardinality(timers) <= 1
  /\ \A t \in timers : t.id = timerIds /\ widget.resizeTimer = Int2Num(t.id)
  /\ resizeLog.fired + resizeLog.cancelled + Cardinality(timers) = resizeLog.events

\* a pending timeout was superseded, and the one that replaced it has fired
C3_Witness ==
  /\ resizeLog.cancelled >= 1
  /\ resizeLog.fired >= 1
  /\ timers = {}

-----------------------------------------------------------------------------
(* Scroll targets *)

\* a step in which updateScrollPosition called tween()
TweenStarted == Len(tweens') = Len(tweens) + 1 /\ scrollLog'.calls = scrollLog.calls + 1

\* the tween such a step starts
Started == tweens'[Len(tweens')]

\* the adjusted increment, in halves
AdjustedIncrement == ToNumber(incrementMultiplier(leftmostItem)).h

\* current offset + left edge of the leftmost fully visible item
\* + adjusted increment * (item width + gap) - gap / 2, in halves
ForwardTarget ==
  scrollLeft + ItemX(leftmostItem)
    + (AdjustedIncrement * (2 * widget.items[1] + widget.itemGap.h)) \div 2
    - widget.itemGap.h \div 2

\* increment 1, item width 300, gap 24, padding 16, offset 0, first item at 16
ForwardExample ==
  /\ widget.scrollIncrement = Int2Num(1)
  /\ widget.items[1] = 300
  /\ widget.itemGap = Int2Num(24)
  /\ widget.listPad = Int2Num(16)
  /\ scrollLeft = 0
  /\ ItemX(1) = 2 * 16

\* C4: a forward call of calculateNewScrollPosition returns current offset +
\* left edge of the leftmost fully visible item + adjusted increment * (item
\* width + gap) - gap/2, whatever the offset, gap, padding and increment are;
\* in the example (increment 1, width 300, gap 24, padding 16, offset 0, first
\* item at 16) that is 328.
C4_ForwardTarget ==
  [][TweenStarted /\ Truthy(scrollLog'.direction)
       => /\ Started.to = Num(ForwardTarget)
          /\ ForwardExample => Started.to = Int2Num(328)]_vars

\* the example's call has been made
C4_Witness ==
  /\ Truthy(scrollLog.direction)
  /\ widget.scrollIncrement = Int2Num(1)
  /\ widget.itemGap = Int2Num(24) /\ widget.listPad = Int2Num(16)
  /\ \E i \in 1..Len(tweens) : tweens[i].from = Num(0) /\ tweens[i].to = Int2Num(328)

\* the current offset is at most item width + list padding + gap/2 (halves)
WithinFirstItem ==
  /\ IsNumber(widget.listPad) /\ IsNumber(widget.itemGap)
  /\ scrollLeft <= 2 * widget.items[1] + widget.listPad.h + widget.itemGap.h \div 2

\* C5: a backward call of calculateNewScrollPosition made at an offset of at
\* most item width + list padding + gap/2 returns 0, whatever the increment,
\* the anchor's position and the adjusted increment are.
C5_BackwardNearStartIsZero ==
  [][TweenStarted /\ ~Truthy(scrollLog'.direction) /\ WithinFirstItem
       => Started.to = Num(0)]_vars

\* a backward call from offset 328, the bound itself, went to 0
C5_Witness ==
  /\ scrollLog.direction = Int2Num(0)
  /\ widget.itemGap = Int2Num(24) /\ widget.listPad = Int2Num(16)
  /\ \E i \in 1..Len(tweens) : tweens[i].from = Int2Num(328) /\ tweens[i].to = Num(0)



-----------------------------------------------------------------------------
(* Reduced motion *)

Directions == {Int2Num(0), Int2Num(1)}

\* C10: updateScrollPosition hands tween() the duration 1 under a
\* reduced-motion preference and 400 otherwise; from the same state and with
\* the same direction the start and the target handed over are the same in
\* both cases.
C10_ReducedMotionOnlyShortens ==
  /\ [](\A d \in Directions :
         \E reduced \in {TweenArguments(d, TRUE)} :
         \E full \in {TweenArguments(d, FALSE)} :
           /\ reduced.duration = 1
           /\ full.duration = 400
           /\ reduced.from = full.from
           /\ reduced.to = full.to)
  /\ [][TweenStarted
          => /\ Started.duration = IF reducedMotion THEN 1 ELSE 400
             /\ Started.from = Num(scrollLeft)
             /\ Started.to = TweenArguments(scrollLog'.direction, ~reducedMotion).to]_vars

\* under reduced motion a tween of duration 1 is on its way to another offset
C10_Witness ==
  /\ reducedMotion
  /\ \E i \in 1..Len(tweens) :
       /\ tweens[i].duration = 1
       /\ IsNumber(tweens[i].to)
       /\ tweens[i].to # tweens[i].from
       /\ tweens[i].from = Int2Num(340)

-----------------------------------------------------------------------------
(* Option precedence *)

\* a step in which the constructor ran
Constructed == pc = "new" /\ pc' # "new"

\* the options the claims list, as far as each version of the class has them
Recognized ==
  IF impl = "index" THEN OptionNames \ {"easingFunction"}
  ELSE {"baseClassName", "navigation", "navigationLabel", "navigationHiddenTextPrev",
        "navigationHiddenTextNext", "scrollSnap"}

BooleanOptions == {"navigation", "scrollSnap"}

\* what the element holds for an option: the attribute, or the marker child's markup
Attribute(name) ==
  CASE name = "navigationVisualContentNext" -> markup.next
    [] name = "navigationVisualContentPrev" -> markup.prev
    [] OTHER -> dataset[name]

\* v is a valid value of the option: a boolean or "true"/"false" for a flag, a
\* whole number from 1 for the increment, a text that is not empty otherwise
ValidFor(name, v) ==
  CASE name \in BooleanOptions -> v.t = "boolean" \/ v \in {Str(TrueStr), Str(FalseStr)}
    [] name = "scrollIncrement" ->
         /\ v.t = "number" \/ (v.t = "string" /\ v.s # <<>>)
         /\ IsNumber(ToNumber(v)) /\ ToNumber(v).h >= 2 /\ ToNumber(v).h % 2 = 0
    [] OTHER -> v.t = "string" /\ v.s # <<>>

\* values on whose validity the claims about the single options decide: an
\* increment that is a number but no whole number from 1, a flag text other than
\* "true" and "false", a class name with white space
Disputed(name, v) ==
  CASE name = "scrollIncrement" ->
         IsNumber(ToNumber(v)) /\ ToNumber(v).h # 0 /\ ~ValidFor(name, v)
    [] name = "scrollSnap" -> v.t = "string" /\ v.s # <<>> /\ ~ValidFor(name, v)
    [] name = "baseClassName" -> v.t = "string" /\ v.s # <<>> /\ ~ValidToken(v.s)
    [] OTHER -> FALSE

Undisputed(name) == ~Disputed(name, options[name]) /\ ~Disputed(name, Attribute(name))

\* the option value a valid override stands for
OverrideValue(name, v) ==
  IF name \in BooleanOptions THEN Bool(v \in {Bool(TRUE), Str(TrueStr)}) ELSE v

\* the option value a valid attribute stands for
AttributeValue(name, v) ==
  CASE name \in BooleanOptions -> Bool(v = Str(TrueStr))
    [] name = "scrollIncrement" -> ToNumber(v)
    [] OTHER -> v

\* attribute when valid, else the built-in default
FromElement(name) ==
  IF ValidFor(name, Attribute(name)) THEN AttributeValue(name, Attribute(name))
  ELSE Fields[name]

\* override when defined and valid, else attribute when valid, else default
ValidOverrideFirst(name) ==
  IF ValidFor(name, options[name]) THEN OverrideValue(name, options[name])
  ELSE FromElement(name)

\* a defined override decides alone: index.js takes it when valid and the
\* default otherwise, part_000 takes it as it is
DefinedOverrideFirst(name) ==
  IF options[name] = Undefined THEN FromElement(name)
  ELSE IF impl = "legacy" THEN options[name]
  ELSE IF ValidFor(name, options[name]) THEN OverrideValue(name, options[name])
  ELSE Fields[name]

\* C6 as stated: every recognized option gets the override when that is
\* defined and valid, otherwise the attribute's (or marker child's) value when
\* that is valid, otherwise the default; so an invalid override leaves the
\* choice to a valid attribute.
C6_InvalidOverrideYieldsToAttribute ==
  [][Constructed
       => \A name \in Recognized :
            Undisputed(name) => widget'[name] = ValidOverrideFirst(name)]_vars

\* C6, amended: every recognized option gets its value from the override
\* whenever one is defined (the override itself when valid, and in index.js the
\* default when not; part_000 takes it unchecked), and only without an override
\* from the attribute (or marker child) when that is valid, and else the default.
C6_DefinedOverrideDecides ==
  [][Constructed
       => \A name \in Recognized :
            Undisputed(name) => widget'[name] = DefinedOverrideFirst(name)]_vars

\* an empty label override next to a label attribute: the default label is used
C6_Witness ==
  /\ pc = "constructed" /\ impl = "index"
  /\ options.navigationLabel = Str(<<>>)
  /\ dataset.navigationLabel = Str(AttributeText)
  /\ widget.navigationLabel = Str(HorizontalScrollLabel)

-----------------------------------------------------------------------------
(* Construction with malformed attributes *)

\* the scroll-increment attribute is missing, empty, or no number
NoIncrementAttribute ==
  \/ dataset.scrollIncrement = Undefined
  \/ dataset.scrollIncrement.s = <<>>
  \/ ~IsNumber(ToNumber(dataset.scrollIncrement))

\* without overrides the constructor does not throw
NeverRaises == options = NoOptions => pc # "threw"

\* without a usable increment attribute and without an override the increment is 1
IncrementDefaults ==
  pc # "new" /\ impl = "index" /\ options.scrollIncrement = Undefined /\ NoIncrementAttribute
    => widget.scrollIncrement = Int2Num(1)

\* C7: construction never raises because of a missing or malformed attribute,
\* and without an override a missing, empty or unparseable scroll-increment
\* attribute leaves the increment at the default 1.
C7_MalformedAttributesNeverRaise == NeverRaises /\ IncrementDefaults

-----------------------------------------------------------------------------
(* Navigation *)

\* override false, or attribute "false" with no override
NavigationDisabled ==
  \/ options.navigation = Bool(FALSE)
  \/ options.navigation = Undefined /\ dataset.navigation = Str(FalseStr)

\* the configured class name can be a class token
UsableClassName == ValidToken(Template(widget.baseClassName))

Navs == {n \in 1..Len(children) : children[n].tag = "nav"}

ClickListeners ==
  {nb \in (1..Len(children)) \X {1, 2} :
     nb[2] <= Len(children[nb[1]].buttons) /\ children[nb[1]].buttons[nb[2]].click}

\* C8: with navigation disabled (override false, or attribute "false" and no
\* override) the container gets no nav element and no click listener, and no
\* click ever starts a tween; with navigation enabled the constructed
\* container holds exactly one nav element, with exactly two buttons.
C8_NavigationOnlyWhenEnabled ==
  /\ [](NavigationDisabled => Navs = {} /\ ClickListeners = {} /\ tweens = <<>>)
  /\ [](pc # "new" /\ Truthy(widget.navigation) /\ UsableClassName
          => /\ pc = "constructed"
             /\ Cardinality(Navs) = 1
             /\ \A n \in Navs : Len(children[n].buttons) = 2)
  /\ [][NavigationDisabled => tweens' = tweens]_vars

\* navigation disabled by the attribute alone, after construction and load
C8_Witness ==
  /\ pc = "constructed" /\ loaded
  /\ options.navigation = Undefined /\ dataset.navigation = Str(FalseStr)
  /\ children = Markup

-----------------------------------------------------------------------------
(* Scroll snap *)

\* C9: with scroll-snap enabled the snap class is added during construction,
\* only then, and is on the container in every later state; with scroll-snap
\* not enabled the class is never on the container.
C9_SnapClassStays ==
  /\ [](IF pc = "constructed" /\ Truthy(widget.scrollSnap)
          THEN SnapToken(widget) \in classList
          ELSE SnapToken(widget) \notin classList)
  /\ [][SnapToken(widget') \in classList' /\ SnapToken(widget) \notin classList
          => Constructed]_vars

\* the snap class after a load, a settled resize that removed the centered
\* class, and a scroll
C9_Witness ==
  /\ SnapToken(widget) \in classList
  /\ loaded
  /\ adjustLog.last = [cause |-> "timer", before |-> TRUE]
  /\ CenterToken(widget) \notin classList
  /\ scrollLog.calls >= 1

-----------------------------------------------------------------------------
(* Navigation buttons *)

\* a step in which a click on a nav button called updateScrollPosition
Clicked == scrollLog'.calls = scrollLog.calls + 1 /\ scrollLog'.button # 0

\* C11: with navigation enabled the constructed container has the nav as its
\* first child, in front of the markup it had; in index.js the previous button
\* carries the direction marker "0" and the next button "1", and every click
\* on the previous button runs the calculation with direction 0 and every
\* click on the next button with direction 1, never the other way round.
C11_ButtonsKeepTheirDirection ==
  /\ [](pc = "constructed" /\ Truthy(widget.navigation)
          => /\ children[1].tag = "nav"
             /\ Tail(children) = Markup
             /\ impl = "index"
                  => /\ children[1].buttons[1].dir = <<"0">>
                     /\ children[1].buttons[2].dir = <<"1">>
                     /\ children[1].buttons[1].text = Template(widget.navigationHiddenTextPrev)
                     /\ children[1].buttons[2].text = Template(widget.navigationHiddenTextNext))
  /\ [][Clicked
          => /\ scrollLog'.button = 1 => scrollLog'.direction = Int2Num(0)
             /\ scrollLog'.button = 2 => scrollLog'.direction = Int2Num(1)]_vars

\* the next button was clicked and a tween towards a larger offset is running
C11_Witness ==
  /\ children[1].tag = "nav"
  /\ scrollLog.button = 2
  /\ scrollLog.direction = Int2Num(1)
  /\ \E i \in 1..Len(tweens) : Gt(tweens[i].to, tweens[i].from)

-----------------------------------------------------------------------------
(* Visual content of the buttons *)

\* the markup the caller supplies for a button: the override when one is
\* defined, else the marker child's markup
Supplied(name) == IF options[name] # Undefined THEN options[name] ELSE Attribute(name)

\* the buttons of a constructed nav show the supplied markup when there is
\* some, and the default glyph otherwise
ShowsSuppliedOrDefault ==
  pc = "constructed" /\ impl = "index" /\ Truthy(widget.navigation)
    => /\ children[1].buttons[1].html =
            IF Truthy(Supplied("navigationVisualContentPrev"))
              THEN Supplied("navigationVisualContentPrev").s ELSE ChevronPrev
       /\ children[1].buttons[2].html =
            IF Truthy(Supplied("navigationVisualContentNext"))
              THEN Supplied("navigationVisualContentNext").s ELSE ChevronNext

\* a button that shows a default glyph shows a span with aria-hidden="true"
DefaultGlyphIsHidden ==
  pc = "constructed" /\ impl = "index" /\ Truthy(widget.navigation)
    => \A b \in 1..2 :
         children[1].buttons[b].html \in {ChevronPrev, ChevronNext}
           => /\ StartsWith(children[1].buttons[b].html, <<"<","s","p","a","n">>)
              /\ HasAttribute(children[1].buttons[b].html, AriaHidden, TrueStr)

\* C12: each button's visual content is the caller-supplied markup (override,
\* or the marker child's inner markup) when there is one and the default
\* chevron glyph otherwise, and the default glyph of either button is a span
\* that carries aria-hidden="true".
C12_DefaultGlyphIsAriaHidden == ShowsSuppliedOrDefault /\ DefaultGlyphIsHidden

-----------------------------------------------------------------------------
(* The effective scroll increment *)

\* v is a whole number from 1
PositiveInteger(v) == IsNumber(v) /\ v.h >= 2 /\ v.h % 2 = 0

\* the increment is the default unless the override, or without one the
\* attribute read by Number(), is truthy and no NaN; it is then that value as
\* it is
IncrementAsGiven ==
  pc # "new" /\ impl = "index"
    => widget.scrollIncrement =
         IF Truthy(Param("scrollIncrement")) /\ ~isNaN(Param("scrollIncrement"))
           THEN Param("scrollIncrement") ELSE Int2Num(1)

\* C13: after construction, whatever the override and the scroll-increment
\* attribute are, the effective scroll increment is a whole number from 1, in
\* every later state too.
C13_IncrementIsPositiveInteger ==
  pc = "constructed" /\ impl = "index" => PositiveInteger(widget.scrollIncrement)

-----------------------------------------------------------------------------
(* Anchor, inset and adjusted increment *)

\* the items whose left edge is at or past gap/2
AtOrPastHalfGap ==
  {i \in 1..Len(widget.items) : 2 * ItemX(i) >= widget.itemGap.h}

\* the first of them in list order
FirstAtOrPast ==
  CHOOSE i \in 1..Len(widget.items) :
    /\ 2 * ItemX(i) >= widget.itemGap.h
    /\ \A j \in 1..(i - 1) : 2 * ItemX(j) < widget.itemGap.h

\* list padding for item 0, gap/2 for any other item, in halves
Inset(i) == IF i = 1 THEN widget.listPad.h ELSE widget.itemGap.h \div 2

\* the configured increment at the inset, one less anywhere else, in halves
AdjustedByInset(i) ==
  IF ItemX(i) = Inset(i) THEN ToNumber(widget.scrollIncrement).h
  ELSE ToNumber(widget.scrollIncrement).h - 2

\* the calculation has what it reads: items, and a gap and a padding that are numbers
Calculable ==
  /\ pc = "constructed" /\ impl = "index"
  /\ IsNumber(widget.itemGap) /\ IsNumber(widget.listPad)
  /\ IsNumber(ToNumber(widget.scrollIncrement))

\* C14: in calculateNewScrollPosition the anchor is the first item in list
\* order whose left edge is at or past gap/2; its inset is the list padding
\* for item 0 and gap/2 for any other; the adjusted increment is the
\* configured increment when the anchor's left edge equals the inset and the
\* configured increment minus 1 in every other case.  A call finds no anchor
\* exactly when no item is at or past gap/2.
C14_AnchorInsetAdjustedIncrement ==
  Calculable
    => \E found \in {leftmostItem} :
         IF AtOrPastHalfGap = {} THEN found = 0
         ELSE \E a \in {FirstAtOrPast} :
                /\ found = a
                /\ leftPad(found) = Num(Inset(a))
                /\ incrementMultiplier(found) =
                     IF ItemX(a) = Inset(a) THEN widget.scrollIncrement
                     ELSE Num(ToNumber(widget.scrollIncrement).h - 2)

\* a call was made with the second item as anchor, exactly at its inset of
\* gap/2, and the increment 2 was used as configured
C14_Witness ==
  /\ Calculable
  /\ widget.scrollIncrement = Int2Num(2)
  /\ leftmostItem = 2
  /\ ItemX(2) = widget.itemGap.h \div 2
  /\ \E i \in 1..Len(tweens) :
       /\ tweens[i].from = Num(scrollLeft)
       /\ tweens[i].to = Num(scrollLeft + ItemX(2) + 2 * (2 * 300 + widget.itemGap.h)
                               - widget.itemGap.h \div 2)

-----------------------------------------------------------------------------
(* Backward targets away from the start *)

\* item width + gap, in halves
Stride == 2 * widget.items[1] + widget.itemGap.h

\* the current offset is greater than item width + list padding + gap/2
BeyondFirstItem ==
  scrollLeft > 2 * widget.items[1] + widget.listPad.h + widget.itemGap.h \div 2

\* current offset - (item width + gap - anchor left edge + inset)
\* - adjusted increment * (item width + gap) for an adjusted increment below
\* 1, current offset - adjusted increment * (item width + gap) from 1 on; in
\* halves, for the anchor a and its adjusted increment
BackwardTarget(a, adjusted) ==
  IF adjusted < 2
    THEN scrollLeft - (Stride - ItemX(a) + Inset(a)) - (adjusted * Stride) \div 2
    ELSE scrollLeft - (adjusted * Stride) \div 2

\* C15: with a backward direction and a current offset greater than item
\* width + list padding + gap/2, calculateNewScrollPosition returns current
\* offset - (item width + gap - anchor left edge + inset) - adjusted increment
\* * (item width + gap) when the adjusted increment is below 1, and current
\* offset - adjusted increment * (item width + gap) when it is 1 or more.
C15_BackwardTargetAwayFromStart ==
  Calculable /\ BeyondFirstItem /\ AtOrPastHalfGap # {}
    => \E result \in {calculateNewScrollPosition(Int2Num(0))} :
       \E a \in {FirstAtOrPast} :
         /\ ~result.threw
         /\ result.value = Num(BackwardTarget(a, AdjustedByInset(a)))

\* backward calls from offset 340 have been made: with increment 1 (adjusted
\* 0) to 328, or with increment 2 (adjusted 1) to 16
C15_Witness ==
  /\ scrollLog.direction = Int2Num(0)
  /\ widget.itemGap = Int2Num(24) /\ widget.listPad = Int2Num(16)
  /\ \E i \in 1..Len(tweens) :
       /\ tweens[i].from = Int2Num(340)
       /\ \/ widget.scrollIncrement = Int2Num(1) /\ tweens[i].to = Int2Num(328)
          \/ widget.scrollIncrement = Int2Num(2) /\ tweens[i].to = Int2Num(16)

-----------------------------------------------------------------------------
(* Clicks while a tween is running *)

\* a step in which updateScrollPosition was called while a tween was running
CalledInFlight == scrollLog'.calls = scrollLog.calls + 1 /\ tweens # <<>>

\* a step in which a tween made its last callback
TweenEnded == Len(tweens') < Len(tweens)

\* C16: clicks are not guarded while a tween is in flight.  A call made while
\* tweens are running starts one more tween, from the scroll offset at that
\* moment and to the target calculated from it, and leaves the running ones
\* as they are; each of them goes on to its end and writes its own target to
\* the list then, so with two running the offset left at the end is the
\* target of the one that ends last.
C16_ClicksDuringATweenAreNotGuarded ==
  /\ [][CalledInFlight
          => IF calculateNewScrollPosition(scrollLog'.direction).threw
               THEN tweens' = tweens
               ELSE /\ Len(tweens') = Len(tweens) + 1
                    /\ SubSeq(tweens', 1, Len(tweens)) = tweens
                    /\ Started.from = Num(scrollLeft)
                    /\ Started.to = calculateNewScrollPosition(scrollLog'.direction).value
                    /\ ~Started.midway]_vars
  /\ [][TweenEnded
          => \E i \in 1..Len(tweens) :
               /\ tweens' = SubSeq(tweens, 1, i - 1) \o SubSeq(tweens, i + 1, Len(tweens))
               /\ scrollLeft' = Scroll(tweens[i].to)]_vars

\* two tweens are running after two clicks on the previous button: the first
\* goes from 340 to 16 and has brought the list to 178, the second began
\* there and goes to 0
C16_Witness ==
  /\ Len(tweens) = 2
  /\ scrollLog.button = 1
  /\ tweens[1].midway
  /\ tweens[1].from = Int2Num(340) /\ tweens[1].to = Int2Num(16)
  /\ tweens[2].from = Int2Num(178) /\ tweens[2].to = Int2Num(0)
  /\ scrollLeft = 2 * 178

-----------------------------------------------------------------------------
(* Scroll snap from the attribute *)

\* scroll-snap is on and the snap class is on the container
SnapOn == Truthy(widget.scrollSnap) /\ SnapToken(widget) \in classList

\* scroll-snap is off and the container is without the snap class
SnapOff == widget.scrollSnap = Bool(FALSE) /\ SnapToken(widget) \notin classList

\* without an override index.js turns scroll-snap on for every attribute
\* value that is not empty and not "false", part_000 for "true" alone
SnapUnlessFalse ==
  pc = "constructed" /\ options.scrollSnap = Undefined
    => IF \/ dataset.scrollSnap = Str(TrueStr)
          \/ /\ impl = "index"
             /\ dataset.scrollSnap \notin {Undefined, Str(<<>>), Str(FalseStr)}
         THEN SnapOn ELSE SnapOff

\* C17: when no scrollSnap override is passed, scroll-snap is on (and the
\* snap class added) exactly when the scroll-snap attribute is the string
\* "true"; with the attribute missing, "false", empty or anything else it
\* stays off.
C17_SnapOnlyForTrueAttribute ==
  pc = "constructed" /\ options.scrollSnap = Undefined
    => IF dataset.scrollSnap = Str(TrueStr) THEN SnapOn ELSE SnapOff

-----------------------------------------------------------------------------
(* When alignment is recomputed *)

\* runs of adjustAlignment so far
Runs == adjustLog.load + adjustLog.timer

\* a step that delivers the load event to a constructed instance
LoadDelivered == ~loaded /\ loaded' /\ pc # "new"

\* C18: adjustAlignment runs once for every load event delivered after
\* construction and once for every settled resize (a timeout that expires),
\* and at no other step: not in the constructor, at a click, at a scroll
\* update, a tween frame or a resize event, and never for a superseded resize
\* event.  The centered class changes in those runs only.
C18_AlignmentOnLoadAndSettledResize ==
  /\ [][LoadDelivered
          => adjustLog'.load = adjustLog.load + 1 /\ adjustLog'.timer = adjustLog.timer]_vars
  /\ [][TimerFired
          => adjustLog'.timer = adjustLog.timer + 1 /\ adjustLog'.load = adjustLog.load]_vars
  /\ [][~LoadDelivered /\ ~TimerFired
          => /\ adjustLog' = adjustLog
             /\ (CenterToken(widget') \in classList') = (CenterToken(widget) \in classList)]_vars
  /\ [](/\ adjustLog.load <= 1
        /\ pc = "new" => Runs = 0
        /\ adjustLog.timer = resizeLog.fired
        /\ adjustLog.timer + resizeLog.cancelled + Cardinality(timers) = resizeLog.events)

\* after the load and two resize events, of which the first was superseded,
\* alignment has run twice: once for the load, once for the settled resize
C18_Witness ==
  /\ pc = "constructed" /\ loaded
  /\ resizeLog.events = 2 /\ resizeLog.cancelled = 1 /\ timers = {}
  /\ adjustLog.load = 1 /\ adjustLog.timer = 1

-----------------------------------------------------------------------------
(* Forward progress *)

\* gap > 0, padding >= 0, an increment of at least 1, the list's left edge
\* at x = 0, and an item at or past gap/2
ForwardDomain ==
  /\ Calculable
  /\ widget.itemGap.h > 0 /\ widget.listPad.h >= 0
  /\ ToNumber(widget.scrollIncrement).h >= 2
  /\ listX = 0
  /\ AtOrPastHalfGap # {}

\* the forward target is never behind the current offset, and it is the
\* current offset only with increment 1 and item 0 as anchor at exactly
\* gap/2, which is not its inset
ForwardStuckOnlyAtHalfGap ==
  ForwardDomain
    => /\ Ge(calculateNewScrollPosition(Int2Num(1)).value, Num(scrollLeft))
       /\ calculateNewScrollPosition(Int2Num(1)).value = Num(scrollLeft)
            => /\ FirstAtOrPast = 1
               /\ 2 * ItemX(1) = widget.itemGap.h
               /\ ItemX(1) # widget.listPad.h
               /\ widget.scrollIncrement = Int2Num(1)

\* C19: for a uniform item width, gap > 0, padding >= 0, an increment of at
\* least 1, the list's left edge at x = 0 and any offset at which some item
\* is at or past gap/2, calculateNewScrollPosition(1) returns a target
\* strictly greater than the current offset.
C19_ForwardTargetBeyondOffset ==
  ForwardDomain => Gt(calculateNewScrollPosition(Int2Num(1)).value, Num(scrollLeft))

-----------------------------------------------------------------------------
(* Backward bounds *)

\* gap > 0, padding >= 0, an increment of at least 1, and an item at or past
\* gap/2 (the call returns)
BackwardDomain ==
  /\ Calculable
  /\ widget.itemGap.h > 0 /\ widget.listPad.h >= 0
  /\ ToNumber(widget.scrollIncrement).h >= 2
  /\ AtOrPastHalfGap # {}

\* the backward target is never ahead of the current offset, and it is
\* negative only where the adjusted increment is 1 or more and the offset is
\* less than that many strides
BackwardNegativeOnlyForLongSteps ==
  BackwardDomain
    => /\ Le(calculateNewScrollPosition(Int2Num(0)).value, Num(scrollLeft))
       /\ Lt(calculateNewScrollPosition(Int2Num(0)).value, Num(0))
            => /\ BeyondFirstItem
               /\ AdjustedByInset(FirstAtOrPast) >= 2
               /\ 2 * scrollLeft < AdjustedByInset(FirstAtOrPast) * Stride

\* C20: for a uniform item width, gap > 0, padding >= 0, an increment of at
\* least 1 and any offset >= 0 the list can be scrolled to,
\* calculateNewScrollPosition(0) returns a target that is not negative and not
\* greater than the current offset.
C20_BackwardTargetWithinBounds ==
  BackwardDomain
    => /\ Ge(calculateNewScrollPosition(Int2Num(0)).value, Num(0))
       /\ Le(calculateNewScrollPosition(Int2Num(0)).value, Num(scrollLeft))

-----------------------------------------------------------------------------
(* Next, then previous, from the start *)

\* a step in which the only running tween ends, that tween having been
\* started at offset 0 by a forward call, with the list's left edge at x = 0
\* (item 0 at the list padding), items of one width, an increment of at least
\* 1, and its target within the scroll range: the list is at that target after
ForwardFromStartEnded ==
  /\ Len(tweens) = 1 /\ tweens' = <<>>
  /\ Calculable
  /\ tweens[1].from = Num(0) /\ Gt(tweens[1].to, Num(0))
  /\ scrollLeft' = tweens[1].to.h
  /\ listX = 0 /\ ItemX(1) + scrollLeft = widget.listPad.h
  /\ \A i \in 1..Len(widget.items) : widget.items[i] = widget.items[1]
  /\ ToNumber(widget.scrollIncrement).h >= 2

\* the backward call made at the forward target returns 0 for the increment
\* 1, where the near-start test still holds, and list padding - gap/2 for
\* greater increments
BackFromForwardTarget ==
  [][ForwardFromStartEnded
       => calculateNewScrollPosition(Int2Num(0))' =
            [threw |-> FALSE,
             value |-> IF widget.scrollIncrement = Int2Num(1) THEN Num(0)
                       ELSE Num(widget.listPad.h - widget.itemGap.h \div 2)]]_vars

\* the list has been brought from 0 to the forward target 328 of increment 1
\* and a previous click there has started a tween back to 0
RoundTripOfOne ==
  /\ widget.scrollIncrement = Int2Num(1)
  /\ scrollLog.calls = 2 /\ scrollLog.button = 1
  /\ scrollLeft = 2 * 328
  /\ tweens = <<[from |-> Int2Num(328), to |-> Num(0),
                 duration |-> tweens[1].duration, midway |-> FALSE]>>

\* C21: round trip from the start.  For items of one width, any increment of
\* at least 1 and a list long enough that the target is not clamped, when the
\* list has been moved from offset 0, item 0 at the list padding, to the
\* target of calculateNewScrollPosition(1), calculateNewScrollPosition(0)
\* computed there yields 0, and scrolling to it leaves the list at the start.
C21_NextThenPreviousReturnsToStart ==
  [][ForwardFromStartEnded
       => /\ calculateNewScrollPosition(Int2Num(0))' = [threw |-> FALSE, value |-> Num(0)]
          /\ Scroll(calculateNewScrollPosition(Int2Num(0)).value)' = 0]_vars

====
